---- MODULE Spec2Model ----
(***************************************************************************)
(* VMonClient: the peak-aggregation sampler (class VMMonitor of            *)
(* vm_monitor/vm_monitor_client.py) as a state machine.  One action per    *)
(* statement of VMMonitor.run and one for the constructor; the methods     *)
(* those statements call are operators computed as the code computes them. *)
(* Time is in whole seconds.  An uncaught Python exception ends the        *)
(* process: pc = "crashed" and crash names the statement that raised.      *)
(* The HTTP API (class VMMonitorAPI of vm_monitor/vm_monitor_api.py) is a  *)
(* second state machine over the same store, one action per route.         *)
(***************************************************************************)
EXTENDS Integers, Sequences, FiniteSets, TLC

\* ------------------------------------------------------------------ bounds
MaxTime == 14          \* the clock is explored up to this many seconds
MaxRows == 2           \* Sample rows the store is explored up to
StallPeriods == 3      \* a stalled sleep overshoots by this many report periods
MaxStored == 3         \* Sample rows in a store the API is queried on

\* ------------------------------------------------------- program constants
MiB == 1024 * 1024
CpuPercentInterval == 1

NVIDIA_GPU == "NVIDIA_GPU"
AMD_GPU == "AMD_GPU"
CPU_ONLY == "CPU_ONLY"
GPUType == {CPU_ONLY, NVIDIA_GPU, AMD_GPU}

\* ------------------------------------------------------------ environment
\* Text that float()/int() reject (nvidia-smi prints such fields as [N/A]).
NotANumber == -1

\* Values of sample_interval / report_interval found in a config file.
SampleIntervals == {1, 2}
ReportIntervals == {2, 3}

\* psutil.cpu_count(logical=True) at construction.
CpuCounts == {1, 2}

\* What psutil reports on one tick: per-core percentages and byte counts.
\* The list of cores may be shorter or longer than the count taken at
\* construction.
PsutilReadings ==
  { [cpu |-> <<1>>,       mem_used |-> 3 * MiB + 7, mem_total |-> 3 * MiB + 7,
     disk_used |-> 1 * MiB, disk_total |-> 4 * MiB + 9],
    [cpu |-> <<1, 2>>,    mem_used |-> 1 * MiB,     mem_total |-> 2 * MiB + 1,
     disk_used |-> 2 * MiB + 5, disk_total |-> 2 * MiB + 5],
    [cpu |-> <<2, 0, 1>>, mem_used |-> 2 * MiB - 1, mem_total |-> 4 * MiB,
     disk_used |-> 1 * MiB, disk_total |-> 3 * MiB] }

\* Outcomes of running a command with subprocess.run(..., check=True):
\* whether the command ever exits and, when it does, the exit status and,
\* split at the commas, the fields of its output.  Exit status 127 is the
\* shell's "command not found".  The call passes no timeout, so it waits
\* for as long as the command runs.
SmiResults ==
  { [returns |-> TRUE,  exit |-> 0,   stdout |-> <<3, 1, 4>>],
    [returns |-> TRUE,  exit |-> 0,   stdout |-> <<1, 2, 3>>],
    [returns |-> TRUE,  exit |-> 0,   stdout |-> <<2, NotANumber, 4>>],
    [returns |-> TRUE,  exit |-> 1,   stdout |-> <<>>],
    [returns |-> TRUE,  exit |-> 127, stdout |-> <<>>],
    [returns |-> FALSE, exit |-> 0,   stdout |-> <<>>] }

\* Outcomes of the probes run by check_gpu_type: the command exits 0,
\* exits non-zero, or does not exist.
ProbeResults == {"ok", "nonzero", "absent"}

\* Outcomes of the two commits of log_peak_stats.
CommitResults == {"ok", "first_fails", "second_fails"}

\* The keys main reads from the configuration dictionary.
SAMPLE_INTERVAL == "sample_interval"
REPORT_INTERVAL == "report_interval"
DB_FILE_PATH == "db_file_path"
REQUIRED_KEYS == {SAMPLE_INTERVAL, REPORT_INTERVAL, DB_FILE_PATH}

\* Values of db_file_path found in a config file: a path where a database
\* can be created, and one in a directory that does not exist.
OpenablePath == "usage.db"
DbFilePaths == {OpenablePath, "/nonexistent/usage.db"}

\* What yaml.safe_load returns: present is the set of keys the file has;
\* the field of a key is read only when the key is present.
ConfigDicts ==
  [present : SUBSET REQUIRED_KEYS, sample_interval : SampleIntervals,
   report_interval : ReportIntervals, db_file_path : DbFilePaths]

\* Python's None.
None == "None"

\* datetime arithmetic in whole seconds: the length of a day and the
\* time of day hour=23, minute=59, second=59.
SecondsPerDay == 24 * 60 * 60
EndOfDay == 23 * 60 * 60 + 59 * 60 + 59

\* What request.args.get returns for 'start' and 'end': None when the
\* argument is absent, the empty string, text that fromisoformat rejects,
\* or an ISO date with or without a time of day.  day counts the days
\* from the first day of the store, second the seconds since midnight.
ApiDays == 0..2
ApiArgs ==
  { [kind |-> k, day |-> 0, second |-> 0] : k \in {"absent", "empty", "garbage"} }
  \cup [kind : {"iso"}, day : ApiDays, second : {0, SecondsPerDay \div 2}]

\* What request.args.get returns for 'days': None when the argument is
\* absent, the empty string, text that int() rejects (such as 1.5), or the
\* decimal text of an integer, which may be zero or negative.
PurgeDays == (0 - 1)..3
PurgeArgs ==
  { [kind |-> k, value |-> 0] : k \in {"absent", "empty", "garbage"} }
  \cup [kind : {"int"}, value : PurgeDays]

\* Before any request is served.
NoRequest ==
  [route |-> "none", start |-> [kind |-> "absent", day |-> 0, second |-> 0],
   end |-> [kind |-> "absent", day |-> 0, second |-> 0],
   days |-> [kind |-> "absent", value |-> 0]]
NoResponse == [status |-> 0, error |-> "", data |-> <<>>, count |-> 0]

\* The error texts of the API's responses.
DatesRequired == "start and end dates are required"
InvalidDate == "Invalid date format. Use ISO format (YYYY-MM-DD)"
DaysRequired == "days parameter is required"
InvalidDays == "Invalid days parameter. Must be an integer."
DatabaseError == "Database error"

\* The order in which SQLite returns the rows of a query without ORDER BY:
\* the order of the table (rowid), or that of the index on timestamp when
\* the planner uses it for the range.
QueryPlans == {"rowid", "index"}

\* ------------------------------------------------------------------ state
VARIABLES
  pc,                   \* the statement of the program that runs next
  crash,                \* "none", or the statement whose exception ended the process
  now,                  \* the wall clock, seconds
  sample_interval,      \* VMMonitor.sample_interval
  report_interval,      \* VMMonitor.report_interval
  gpu_type,             \* VMMonitor.gpu_type
  num_gpus,             \* VMMonitor.num_gpus
  num_cpus,             \* VMMonitor.num_cpus
  peak_usage_stats,     \* VMMonitor.peak_usage_stats
  current_usage_stats,  \* VMMonitor.current_usage_stats
  next_report,          \* local next_report of VMMonitor.run
  db,                   \* the committed Sample rows with their child rows
  feed,                 \* psutil readings the host is scripted to deliver first
  folded,               \* history: the samples folded since the last reset
  gpu_queried,          \* history: NVIDIA_SMI_COMMAND has been run
  late,                 \* history: seconds the deadline was overshot at the last expiry
  config_dict,          \* the dictionary yaml.safe_load read from the config file
  db_session,           \* VMMonitor.db_session
  tick_start,           \* history: the clock when the current iteration of run began
  stopped_at,           \* history: the statement a signal interrupted, or "none"
  request,              \* the query arguments of the API request being served
  response              \* the status and body the API handler returned

vars == <<pc, crash, now, sample_interval, report_interval, gpu_type, num_gpus,
          num_cpus, peak_usage_stats, current_usage_stats, next_report, db,
          feed, folded, gpu_queried, late, config_dict, db_session, tick_start,
          stopped_at, request, response>>

config == <<sample_interval, report_interval>>
monitor == <<gpu_type, num_gpus, num_cpus>>
startup == <<config_dict, db_session>>
api == <<request, response>>

\* ---------------------------------------------------------------- helpers
max(a, b) == IF a >= b THEN a ELSE b

Zeros(n) == [i \in 1..n |-> 0]

\* UsageStats(cpu=[0.0] * n)
UsageStats(n) ==
  [cpu |-> Zeros(n), mem_used_mb |-> 0, mem_total_mb |-> 0,
   disk_used_mb |-> 0, disk_total_mb |-> 0,
   gpu_proc |-> 0, gpu_mem_used |-> 0, gpu_mem_total |-> 0]

\* Mutant of reset: the cpu list is emptied instead of refilled with one
\* zero per core.
reset_empties_cpu(stats) ==
  [stats EXCEPT !.cpu = <<>>,
                !.mem_used_mb = 0,
                !.mem_total_mb = 0,
                !.disk_used_mb = 0,
                !.disk_total_mb = 0,
                !.gpu_proc = 0,
                !.gpu_mem_used = 0,
                !.gpu_mem_total = 0]

\* UsageStats.reset
reset(stats) ==
  [stats EXCEPT !.cpu = Zeros(Len(stats.cpu)),
                !.mem_used_mb = 0,
                !.mem_total_mb = 0,
                !.disk_used_mb = 0,
                !.disk_total_mb = 0,
                !.gpu_proc = 0,
                !.gpu_mem_used = 0,
                !.gpu_mem_total = 0]

\* get_session of vm_monitor_db: any exception of create_engine or
\* create_all is caught and printed, and None is returned.
get_session(database_file_path) ==
  IF database_file_path = OpenablePath THEN "session" ELSE None

\* validate_config of vm_monitor_client
validate_config(config_yaml) ==
  \A key \in REQUIRED_KEYS : key \in config_yaml.present

\* VMMonitor.check_gpu_type.  check=True makes subprocess.run raise on a
\* non-zero exit, and a missing command raises FileNotFoundError; when
\* run returns, the CompletedProcess it returns is a true value.
check_gpu_type(nvidia, amd) ==
  IF nvidia = "ok" THEN [raised |-> FALSE, value |-> NVIDIA_GPU]
  ELSE [raised |-> TRUE, value |-> CPU_ONLY]

\* float(...)/int(...) of the first three comma-separated fields.
Parses(stdout) ==
  /\ Len(stdout) >= 3
  /\ \A k \in 1..3 : stdout[k] # NotANumber

\* VMMonitor.get_current_gpu_usage: the usage stats after the call, whether
\* the call raised, whether it ran NVIDIA_SMI_COMMAND, and whether it is
\* still waiting for the command (hung).
get_current_gpu_usage(stats, gt, smi) ==
  IF gt = NVIDIA_GPU
  THEN IF ~smi.returns
       THEN [raised |-> FALSE, hung |-> TRUE, queried |-> TRUE, stats |-> stats]
       ELSE IF smi.exit = 0 /\ Parses(smi.stdout)
       THEN [raised |-> FALSE, hung |-> FALSE, queried |-> TRUE,
             stats |-> [stats EXCEPT !.gpu_proc = smi.stdout[1],
                                     !.gpu_mem_used = smi.stdout[2],
                                     !.gpu_mem_total = smi.stdout[3]]]
       ELSE [raised |-> TRUE, hung |-> FALSE, queried |-> TRUE, stats |-> stats]
  ELSE [raised |-> FALSE, hung |-> FALSE, queried |-> FALSE,
        stats |-> [stats EXCEPT !.gpu_proc = 0,
                                !.gpu_mem_used = 0,
                                !.gpu_mem_total = 0]]

\* VMMonitor.get_current_usage
get_current_usage(stats, gt, reading, smi) ==
  LET basic == [stats EXCEPT !.cpu = reading.cpu,
                             !.mem_used_mb = reading.mem_used \div MiB,
                             !.mem_total_mb = reading.mem_total \div MiB,
                             !.disk_used_mb = reading.disk_used \div MiB,
                             !.disk_total_mb = reading.disk_total \div MiB]
  IN IF gt # CPU_ONLY
     THEN get_current_gpu_usage(basic, gt, smi)
     ELSE [raised |-> FALSE, hung |-> FALSE, queried |-> FALSE, stats |-> basic]

\* Mutant of update_peak_usage: the used fields are overwritten with the
\* current sample, as the totals are, instead of maximised.
update_peak_usage_overwrite(peak, cur, n, gt) ==
  LET m == IF Len(cur.cpu) < n THEN Len(cur.cpu) ELSE n
      cpus == [i \in 1..Len(peak.cpu) |->
                 IF i <= m THEN max(peak.cpu[i], cur.cpu[i]) ELSE peak.cpu[i]]
  IN IF m < n
     THEN [raised |-> TRUE, stats |-> [peak EXCEPT !.cpu = cpus]]
     ELSE LET basic == [peak EXCEPT
                   !.cpu = cpus,
                   !.mem_used_mb = cur.mem_used_mb,
                   !.disk_used_mb = cur.disk_used_mb,
                   !.mem_total_mb = cur.mem_total_mb,
                   !.disk_total_mb = cur.disk_total_mb]
          IN [raised |-> FALSE,
              stats |-> IF gt # CPU_ONLY
                        THEN [basic EXCEPT
                                !.gpu_proc = max(peak.gpu_proc, cur.gpu_proc),
                                !.gpu_mem_used = max(peak.gpu_mem_used, cur.gpu_mem_used),
                                !.gpu_mem_total = cur.gpu_mem_total]
                        ELSE basic]

\* Mutant of update_peak_usage: the totals are maximised like the used
\* fields instead of taken from the current sample.
update_peak_usage_max_totals(peak, cur, n, gt) ==
  LET m == IF Len(cur.cpu) < n THEN Len(cur.cpu) ELSE n
      cpus == [i \in 1..Len(peak.cpu) |->
                 IF i <= m THEN max(peak.cpu[i], cur.cpu[i]) ELSE peak.cpu[i]]
  IN IF m < n
     THEN [raised |-> TRUE, stats |-> [peak EXCEPT !.cpu = cpus]]
     ELSE LET basic == [peak EXCEPT
                   !.cpu = cpus,
                   !.mem_used_mb = max(peak.mem_used_mb, cur.mem_used_mb),
                   !.disk_used_mb = max(peak.disk_used_mb, cur.disk_used_mb),
                   !.mem_total_mb = max(peak.mem_total_mb, cur.mem_total_mb),
                   !.disk_total_mb = max(peak.disk_total_mb, cur.disk_total_mb)]
          IN [raised |-> FALSE,
              stats |-> IF gt # CPU_ONLY
                        THEN [basic EXCEPT
                                !.gpu_proc = max(peak.gpu_proc, cur.gpu_proc),
                                !.gpu_mem_used = max(peak.gpu_mem_used, cur.gpu_mem_used),
                                !.gpu_mem_total = max(peak.gpu_mem_total, cur.gpu_mem_total)]
                        ELSE basic]

\* VMMonitor.update_peak_usage.  The loop over range(num_cpus) raises
\* IndexError at the first index the current list does not have, after it
\* has updated the indices before it.
update_peak_usage(peak, cur, n, gt) ==
  LET m == IF Len(cur.cpu) < n THEN Len(cur.cpu) ELSE n
      cpus == [i \in 1..Len(peak.cpu) |->
                 IF i <= m THEN max(peak.cpu[i], cur.cpu[i]) ELSE peak.cpu[i]]
  IN IF m < n
     THEN [raised |-> TRUE, stats |-> [peak EXCEPT !.cpu = cpus]]
     ELSE LET basic == [peak EXCEPT
                   !.cpu = cpus,
                   !.mem_used_mb = max(peak.mem_used_mb, cur.mem_used_mb),
                   !.disk_used_mb = max(peak.disk_used_mb, cur.disk_used_mb),
                   !.mem_total_mb = cur.mem_total_mb,
                   !.disk_total_mb = cur.disk_total_mb]
          IN [raised |-> FALSE,
              stats |-> IF gt # CPU_ONLY
                        THEN [basic EXCEPT
                                !.gpu_proc = max(peak.gpu_proc, cur.gpu_proc),
                                !.gpu_mem_used = max(peak.gpu_mem_used, cur.gpu_mem_used),
                                !.gpu_mem_total = cur.gpu_mem_total]
                        ELSE basic]

\* Mutant of SampleRow: gpu_count is written as 1 whatever the monitor's
\* GPU count.
SampleRowOneGpu(t, ncpu, ngpu) ==
  [timestamp |-> t, cpu_count |-> ncpu, gpu_count |-> 1,
   cpus |-> <<>>, memory |-> <<>>, disk |-> <<>>, gpus |-> <<>>]

\* The Sample row of log_peak_stats, as the first commit stores it.
SampleRow(t, ncpu, ngpu) ==
  [timestamp |-> t, cpu_count |-> ncpu, gpu_count |-> ngpu,
   cpus |-> <<>>, memory |-> <<>>, disk |-> <<>>, gpus |-> <<>>]

\* Mutant of FullRow: the GPU row is written whatever the classification.
FullRowGpuAlways(t, ncpu, ngpu, peak, gt) ==
  [SampleRow(t, ncpu, ngpu) EXCEPT
     !.cpus = [i \in 1..Len(peak.cpu) |->
                 [cpu_index |-> i - 1, usage_percent |-> peak.cpu[i]]],
     !.memory = << [total_mb |-> peak.mem_total_mb, used_mb |-> peak.mem_used_mb] >>,
     !.disk = << [total_mb |-> peak.disk_total_mb, used_mb |-> peak.disk_used_mb] >>,
     !.gpus = << [gpu_index |-> 0,
                  usage_percent |-> peak.gpu_proc,
                  memory_used_mb |-> peak.gpu_mem_used,
                  memory_total_mb |-> peak.gpu_mem_total] >>]

\* The Sample row with the child rows the second commit stores.
FullRow(t, ncpu, ngpu, peak, gt) ==
  [SampleRow(t, ncpu, ngpu) EXCEPT
     !.cpus = [i \in 1..Len(peak.cpu) |->
                 [cpu_index |-> i - 1, usage_percent |-> peak.cpu[i]]],
     !.memory = << [total_mb |-> peak.mem_total_mb, used_mb |-> peak.mem_used_mb] >>,
     !.disk = << [total_mb |-> peak.disk_total_mb, used_mb |-> peak.disk_used_mb] >>,
     !.gpus = IF gt # CPU_ONLY
              THEN << [gpu_index |-> 0,
                       usage_percent |-> peak.gpu_proc,
                       memory_used_mb |-> peak.gpu_mem_used,
                       memory_total_mb |-> peak.gpu_mem_total] >>
              ELSE <<>>]

\* Mutant of log_peak_stats: the child rows are built from the window as
\* it is after reset(), as if the reset ran between the two commits.
log_peak_stats_after_reset(session, rows, t, ncpu, ngpu, peak, gt, commits) ==
  IF session = None \/ commits = "first_fails" THEN [raised |-> TRUE, db |-> rows]
  ELSE IF commits = "second_fails"
       THEN [raised |-> TRUE, db |-> Append(rows, SampleRow(t, ncpu, ngpu))]
       ELSE [raised |-> FALSE,
             db |-> Append(rows, FullRow(t, ncpu, ngpu, reset(peak), gt))]

\* VMMonitor.log_peak_stats: the store after the call, and whether it raised.
\* With db_session None the first self.db_session.add raises AttributeError.
log_peak_stats(session, rows, t, ncpu, ngpu, peak, gt, commits) ==
  IF session = None \/ commits = "first_fails" THEN [raised |-> TRUE, db |-> rows]
  ELSE IF commits = "second_fails"
       THEN [raised |-> TRUE, db |-> Append(rows, SampleRow(t, ncpu, ngpu))]
       ELSE [raised |-> FALSE, db |-> Append(rows, FullRow(t, ncpu, ngpu, peak, gt))]

\* datetime.fromisoformat: the datetime in seconds, or ValueError.
fromisoformat(arg) ==
  IF arg.kind = "iso"
  THEN [raised |-> FALSE, value |-> arg.day * SecondsPerDay + arg.second]
  ELSE [raised |-> TRUE, value |-> 0]

\* datetime.isoformat: the date and the time of day of a datetime.
isoformat(t) == [day |-> t \div SecondsPerDay, second |-> t % SecondsPerDay]

\* datetime.replace(hour=..., minute=..., second=...): the datetime with
\* its time of day replaced.
replace(t, second_of_day) == t - (t % SecondsPerDay) + second_of_day

\* VMMonitorAPI.get_start_date
get_start_date(arg) ==
  LET parsed == fromisoformat(arg)
  IN [raised |-> parsed.raised, value |-> replace(parsed.value, 0)]

\* Mutant of get_end_date: the parsed datetime is returned as it is, not
\* moved to the end of its day.
get_end_date_as_given(arg) ==
  LET parsed == fromisoformat(arg)
  IN [raised |-> parsed.raised, value |-> parsed.value]

\* VMMonitorAPI.get_end_date
get_end_date(arg) ==
  LET parsed == fromisoformat(arg)
  IN [raised |-> parsed.raised, value |-> replace(parsed.value, EndOfDay)]

\* The rows in the order of the index on timestamp: by timestamp, rows of
\* equal timestamp in table order.
RECURSIVE ByTimestamp(_)
ByTimestamp(rows) ==
  IF rows = <<>> THEN <<>>
  ELSE LET first == CHOOSE k \in 1..Len(rows) :
                      \A j \in 1..Len(rows) :
                        \/ rows[k].timestamp < rows[j].timestamp
                        \/ (rows[k].timestamp = rows[j].timestamp /\ k <= j)
       IN <<rows[first]>> \o
          ByTimestamp([i \in 1..(Len(rows) - 1) |->
                         IF i < first THEN rows[i] ELSE rows[i + 1]])

\* The dictionary get_data_in_range builds for one Sample row; an absent
\* disk or memory row (None) is the empty sequence.
sample_data(sample) ==
  [timestamp |-> isoformat(sample.timestamp), cpu_count |-> sample.cpu_count,
   gpu_count |-> sample.gpu_count, cpus |-> sample.cpus, gpus |-> sample.gpus,
   disk |-> sample.disk, memory |-> sample.memory]

\* VMMonitorAPI.get_data_in_range
get_data_in_range(rows, start_date, end_date, plan) ==
  LET InRange(sample) == sample.timestamp >= start_date /\ sample.timestamp <= end_date
      samples == SelectSeq(IF plan = "index" THEN ByTimestamp(rows) ELSE rows, InRange)
  IN [k \in 1..Len(samples) |-> sample_data(samples[k])]

\* VMMonitorAPI.get_usage_data.  opened is FALSE when get_session returns
\* None: the query then raises AttributeError, caught as a database error.
get_usage_data(rows, start_date_str, end_date_str, opened, plan) ==
  IF start_date_str.kind \in {"absent", "empty"} \/ end_date_str.kind \in {"absent", "empty"}
  THEN [status |-> 400, error |-> DatesRequired, data |-> <<>>, count |-> 0]
  ELSE LET start_date == get_start_date(start_date_str)
           end_date == get_end_date(end_date_str)
       IN IF start_date.raised \/ end_date.raised
          THEN [status |-> 400, error |-> InvalidDate, data |-> <<>>, count |-> 0]
          ELSE IF ~opened
          THEN [status |-> 500, error |-> DatabaseError, data |-> <<>>, count |-> 0]
          ELSE LET data == get_data_in_range(rows, start_date.value, end_date.value, plan)
               IN [status |-> 200, error |-> "", data |-> data, count |-> Len(data)]

\* int(days_str): the integer, or ValueError.
int(arg) ==
  IF arg.kind = "int" THEN [raised |-> FALSE, value |-> arg.value]
  ELSE [raised |-> TRUE, value |-> 0]

\* Mutant of post_purge: text that is not an integer counts as 0 days.
post_purge_garbage_is_zero(rows, days_str, t, opened) ==
  IF days_str.kind \in {"absent", "empty"}
  THEN [status |-> 400, error |-> DaysRequired, deleted_count |-> 0, db |-> rows]
  ELSE LET days == int(days_str)
           cutoff_date == t - days.value * SecondsPerDay
           Kept(sample) == ~(sample.timestamp < cutoff_date)
       IN IF ~opened
          THEN [status |-> 500, error |-> DatabaseError, deleted_count |-> 0, db |-> rows]
          ELSE [status |-> 200, error |-> "",
                deleted_count |-> Len(rows) - Len(SelectSeq(rows, Kept)),
                db |-> SelectSeq(rows, Kept)]

\* Mutant of post_purge: a sample stamped exactly at the cutoff is deleted
\* too.
post_purge_inclusive(rows, days_str, t, opened) ==
  IF days_str.kind \in {"absent", "empty"}
  THEN [status |-> 400, error |-> DaysRequired, deleted_count |-> 0, db |-> rows]
  ELSE LET days == int(days_str)
           cutoff_date == t - days.value * SecondsPerDay
           Kept(sample) == ~(sample.timestamp <= cutoff_date)
       IN IF days.raised
          THEN [status |-> 400, error |-> InvalidDays, deleted_count |-> 0, db |-> rows]
          ELSE IF ~opened
          THEN [status |-> 500, error |-> DatabaseError, deleted_count |-> 0, db |-> rows]
          ELSE [status |-> 200, error |-> "",
                deleted_count |-> Len(rows) - Len(SelectSeq(rows, Kept)),
                db |-> SelectSeq(rows, Kept)]

\* VMMonitorAPI.post_purge at clock t: the response and the store after
\* it.  The bulk delete removes rows of the samples table; opened is FALSE
\* when the session cannot be used, and the store is then as it was.
post_purge(rows, days_str, t, opened) ==
  IF days_str.kind \in {"absent", "empty"}
  THEN [status |-> 400, error |-> DaysRequired, deleted_count |-> 0, db |-> rows]
  ELSE LET days == int(days_str)
           cutoff_date == t - days.value * SecondsPerDay
           Kept(sample) == ~(sample.timestamp < cutoff_date)
       IN IF days.raised
          THEN [status |-> 400, error |-> InvalidDays, deleted_count |-> 0, db |-> rows]
          ELSE IF ~opened
          THEN [status |-> 500, error |-> DatabaseError, deleted_count |-> 0, db |-> rows]
          ELSE [status |-> 200, error |-> "",
                deleted_count |-> Len(rows) - Len(SelectSeq(rows, Kept)),
                db |-> SelectSeq(rows, Kept)]

\* ------------------------------------------------------------------- Init
InitCommon ==
  /\ crash = "none"
  /\ now = 0
  /\ next_report = 0
  /\ db = <<>>
  /\ folded = {}
  /\ gpu_queried = FALSE
  /\ late = 0
  /\ tick_start = 0
  /\ stopped_at = "none"
  /\ request = NoRequest
  /\ response = NoResponse

\* __main__ has loaded the configuration file; nothing is validated or
\* constructed yet.
Init ==
  /\ InitCommon
  /\ pc = "main"
  /\ config_dict \in ConfigDicts
  /\ db_session = None
  /\ sample_interval = 0
  /\ report_interval = 0
  /\ feed = <<>>
  /\ gpu_type = CPU_ONLY
  /\ num_gpus = 0
  /\ num_cpus = 0
  /\ peak_usage_stats = UsageStats(0)
  /\ current_usage_stats = UsageStats(0)

\* ---------------------------------------------------------------- actions
\* __main__: if validate_config(config): main(config), else print
\* "Invalid configuration" and end.
Main ==
  /\ pc = "main"
  /\ pc' = (IF validate_config(config_dict) THEN "construct" ELSE "exit")
  /\ UNCHANGED <<crash, now, config, monitor, peak_usage_stats,
                 current_usage_stats, next_report, db, feed, folded,
                 gpu_queried, late, startup, tick_start, stopped_at, api>>

\* main: VMMonitor(sample_interval=..., report_interval=..., db_file_path=...)
Construct ==
  /\ pc = "construct"
  /\ sample_interval' = config_dict.sample_interval
  /\ report_interval' = config_dict.report_interval
  /\ db_session' = get_session(config_dict.db_file_path)
  /\ \E nvidia \in ProbeResults, amd \in ProbeResults, n \in CpuCounts :
       LET probe == check_gpu_type(nvidia, amd)
       IN IF probe.raised
          THEN /\ pc' = "crashed"
               /\ crash' = "construct"
               /\ UNCHANGED <<monitor, peak_usage_stats, current_usage_stats>>
          ELSE /\ pc' = "run"
               /\ crash' = crash
               /\ gpu_type' = probe.value
               /\ num_gpus' = (IF probe.value = CPU_ONLY THEN 0 ELSE 1)
               /\ num_cpus' = n
               /\ peak_usage_stats' = UsageStats(n)
               /\ current_usage_stats' = UsageStats(n)
  /\ UNCHANGED <<now, next_report, db, feed, folded, gpu_queried, late,
                 config_dict, tick_start, stopped_at, api>>

\* Mutant of RunStart: the first deadline is the start of run itself, so the
\* first tick already flushes.
RunStartDeadlineNow ==
  /\ pc = "run"
  /\ next_report' = now
  /\ pc' = "sample"
  /\ UNCHANGED <<crash, now, config, monitor, peak_usage_stats,
                 current_usage_stats, db, feed, folded, gpu_queried, late,
                 startup, tick_start, stopped_at, api>>

\* run: next_report = datetime.now() + timedelta(seconds=self.report_interval)
RunStart ==
  /\ pc = "run"
  /\ next_report' = now + report_interval
  /\ pc' = "sample"
  /\ UNCHANGED <<crash, now, config, monitor, peak_usage_stats,
                 current_usage_stats, db, feed, folded, gpu_queried, late,
                 startup, tick_start, stopped_at, api>>

\* Mutant of GetCurrentUsage: the fold runs in a finally clause, so a reading
\* whose GPU part failed is folded before the exception leaves the loop.
GetCurrentUsageFoldsAnyway ==
  /\ pc = "sample"
  /\ now + CpuPercentInterval <= MaxTime
  /\ \E reading \in (IF feed = <<>> THEN PsutilReadings ELSE {Head(feed)}),
        smi \in (IF gpu_type = NVIDIA_GPU THEN SmiResults ELSE {CHOOSE r \in SmiResults : TRUE}) :
       LET res == get_current_usage(current_usage_stats, gpu_type, reading, smi)
       IN /\ current_usage_stats' = res.stats
          /\ pc' = (IF res.hung THEN "hung"
                    ELSE IF res.raised THEN "crashed" ELSE "fold")
          /\ crash' = (IF res.raised THEN "sample" ELSE crash)
          /\ gpu_queried' = (gpu_queried \/ res.queried)
          /\ peak_usage_stats' =
               (IF res.raised
                THEN update_peak_usage(peak_usage_stats, res.stats, num_cpus, gpu_type).stats
                ELSE peak_usage_stats)
  /\ feed' = (IF feed = <<>> THEN feed ELSE Tail(feed))
  /\ now' = now + CpuPercentInterval
  /\ tick_start' = now
  /\ UNCHANGED <<config, monitor, next_report, db, folded, late,
                 startup, stopped_at, api>>

\* run: self.get_current_usage().  psutil.cpu_percent(interval=1) blocks
\* for one second.
GetCurrentUsage ==
  /\ pc = "sample"
  /\ now + CpuPercentInterval <= MaxTime
  /\ \E reading \in (IF feed = <<>> THEN PsutilReadings ELSE {Head(feed)}),
        smi \in (IF gpu_type = NVIDIA_GPU THEN SmiResults ELSE {CHOOSE r \in SmiResults : TRUE}) :
       LET res == get_current_usage(current_usage_stats, gpu_type, reading, smi)
       IN /\ current_usage_stats' = res.stats
          /\ pc' = (IF res.hung THEN "hung"
                    ELSE IF res.raised THEN "crashed" ELSE "fold")
          /\ crash' = (IF res.raised THEN "sample" ELSE crash)
          /\ gpu_queried' = (gpu_queried \/ res.queried)
  /\ feed' = (IF feed = <<>> THEN feed ELSE Tail(feed))
  /\ now' = now + CpuPercentInterval
  /\ tick_start' = now
  /\ UNCHANGED <<config, monitor, peak_usage_stats, next_report, db, folded, late,
                 startup, stopped_at, api>>

\* run: self.update_peak_usage()
UpdatePeakUsage ==
  /\ pc = "fold"
  /\ LET res == update_peak_usage(peak_usage_stats, current_usage_stats, num_cpus, gpu_type)
     IN /\ peak_usage_stats' = res.stats
        /\ pc' = (IF res.raised THEN "crashed" ELSE "check")
        /\ crash' = (IF res.raised THEN "fold" ELSE crash)
        /\ folded' = (IF res.raised THEN folded ELSE folded \cup {current_usage_stats})
  /\ UNCHANGED <<now, config, monitor, current_usage_stats, next_report, db,
                 feed, gpu_queried, late,
                 startup, tick_start, stopped_at, api>>

\* Mutant of CheckReport: the body of the if runs on every tick, whatever
\* the deadline.
CheckReportAlwaysExpired ==
  /\ pc = "check"
  /\ pc' = "log"
  /\ late' = now - next_report
  /\ UNCHANGED <<crash, now, config, monitor, peak_usage_stats,
                 current_usage_stats, next_report, db, feed, folded, gpu_queried,
                 startup, tick_start, stopped_at, api>>

\* run: if datetime.now() >= next_report
CheckReport ==
  /\ pc = "check"
  /\ IF now >= next_report
     THEN /\ pc' = "log"
          /\ late' = now - next_report
     ELSE /\ pc' = "sleep"
          /\ late' = late
  /\ UNCHANGED <<crash, now, config, monitor, peak_usage_stats,
                 current_usage_stats, next_report, db, feed, folded, gpu_queried,
                 startup, tick_start, stopped_at, api>>

\* Mutant of LogPeakStats: the exception of a failed record is swallowed and
\* the loop goes on to the reset.
LogPeakStatsSwallowed ==
  /\ pc = "log"
  /\ Len(db) < MaxRows
  /\ \E commits \in CommitResults :
       LET res == log_peak_stats(db_session, db, now, num_cpus, num_gpus, peak_usage_stats,
                                 gpu_type, commits)
       IN /\ db' = res.db
          /\ pc' = "reset"
          /\ crash' = crash
  /\ UNCHANGED <<now, config, monitor, peak_usage_stats, current_usage_stats,
                 next_report, feed, folded, gpu_queried, late,
                 startup, tick_start, stopped_at, api>>

\* Mutant of LogPeakStats: a record call that succeeded also clears the
\* window it was given.
LogPeakStatsClearsPeak ==
  /\ pc = "log"
  /\ Len(db) < MaxRows
  /\ \E commits \in CommitResults :
       LET res == log_peak_stats(db_session, db, now, num_cpus, num_gpus, peak_usage_stats,
                                 gpu_type, commits)
       IN /\ db' = res.db
          /\ pc' = (IF res.raised THEN "crashed" ELSE "reset")
          /\ crash' = (IF res.raised THEN "log" ELSE crash)
          /\ peak_usage_stats' =
               (IF res.raised THEN peak_usage_stats ELSE reset(peak_usage_stats))
  /\ UNCHANGED <<now, config, monitor, current_usage_stats,
                 next_report, feed, folded, gpu_queried, late,
                 startup, tick_start, stopped_at, api>>

\* run: self.log_peak_stats()
LogPeakStats ==
  /\ pc = "log"
  /\ Len(db) < MaxRows
  /\ \E commits \in CommitResults :
       LET res == log_peak_stats(db_session, db, now, num_cpus, num_gpus, peak_usage_stats,
                                 gpu_type, commits)
       IN /\ db' = res.db
          /\ pc' = (IF res.raised THEN "crashed" ELSE "reset")
          /\ crash' = (IF res.raised THEN "log" ELSE crash)
  /\ UNCHANGED <<now, config, monitor, peak_usage_stats, current_usage_stats,
                 next_report, feed, folded, gpu_queried, late,
                 startup, tick_start, stopped_at, api>>

\* Mutant of ResetPeak: the reset is skipped, so the flushed window is
\* carried into the next one.
ResetPeakKeepsWindow ==
  /\ pc = "reset"
  /\ peak_usage_stats' = peak_usage_stats
  /\ folded' = {}
  /\ pc' = "deadline"
  /\ UNCHANGED <<crash, now, config, monitor, current_usage_stats, next_report,
                 db, feed, gpu_queried, late,
                 startup, tick_start, stopped_at, api>>

\* run: self.peak_usage_stats.reset()
ResetPeak ==
  /\ pc = "reset"
  /\ peak_usage_stats' = reset(peak_usage_stats)
  /\ folded' = {}
  /\ pc' = "deadline"
  /\ UNCHANGED <<crash, now, config, monitor, current_usage_stats, next_report,
                 db, feed, gpu_queried, late,
                 startup, tick_start, stopped_at, api>>

\* Mutant of ResetNextReport: the deadline advances from the missed deadline
\* instead of from the clock.
ResetNextReportFromDeadline ==
  /\ pc = "deadline"
  /\ next_report' = next_report + report_interval
  /\ pc' = "sleep"
  /\ UNCHANGED <<crash, now, config, monitor, peak_usage_stats,
                 current_usage_stats, db, feed, folded, gpu_queried, late,
                 startup, tick_start, stopped_at, api>>

\* run: next_report = datetime.now() + timedelta(seconds=self.report_interval)
ResetNextReport ==
  /\ pc = "deadline"
  /\ next_report' = now + report_interval
  /\ pc' = "sleep"
  /\ UNCHANGED <<crash, now, config, monitor, peak_usage_stats,
                 current_usage_stats, db, feed, folded, gpu_queried, late,
                 startup, tick_start, stopped_at, api>>

\* run: time.sleep(self.sample_interval).  The sleep lasts at least the
\* interval; a suspended process wakes up several report periods late.
Sleep ==
  /\ pc = "sleep"
  /\ \E stall \in {0, StallPeriods * report_interval} :
       /\ now + sample_interval + stall <= MaxTime
       /\ now' = now + sample_interval + stall
  /\ pc' = "sample"
  /\ UNCHANGED <<crash, config, monitor, peak_usage_stats, current_usage_stats,
                 next_report, db, feed, folded, gpu_queried, late,
                 startup, tick_start, stopped_at, api>>

NextRun ==
  \/ RunStart
  \/ GetCurrentUsage
  \/ UpdatePeakUsage
  \/ CheckReport
  \/ LogPeakStats
  \/ ResetPeak
  \/ ResetNextReport
  \/ Sleep

Next ==
  \/ Main
  \/ Construct
  \/ NextRun

Spec == Init /\ [][Next]_vars

TypeOK ==
  /\ pc \in {"main", "exit", "construct", "run", "sample", "fold", "check",
             "log", "reset", "deadline", "sleep", "crashed", "hung",
             "interrupted", "api"}
  /\ crash \in {"none", "construct", "sample", "fold", "log"}
  /\ now \in 0..MaxTime
  /\ gpu_type \in GPUType
  /\ Len(db) <= MaxRows

\* The points of update_peak_usage at which a signal can end it: before
\* its first statement, after the loop over the cores, and after the used
\* fields but before the totals.
InterruptedFold(peak, cur, n, gt) ==
  LET done == update_peak_usage(peak, cur, n, gt).stats
  IN { peak,
       [peak EXCEPT !.cpu = done.cpu],
       [peak EXCEPT !.cpu = done.cpu,
                    !.mem_used_mb = done.mem_used_mb,
                    !.disk_used_mb = done.disk_used_mb] }

\* SIGINT (Ctrl-C) or SIGTERM arrives.  run() installs no handler and
\* tests no stop flag: KeyboardInterrupt is raised inside whatever
\* statement is running (SIGTERM kills the process there), and nothing
\* catches it.
Interrupt ==
  /\ pc \notin {"exit", "crashed", "interrupted"}
  /\ stopped_at' = pc
  /\ pc' = "interrupted"
  /\ peak_usage_stats' \in
       (IF pc = "fold"
        THEN InterruptedFold(peak_usage_stats, current_usage_stats, num_cpus, gpu_type)
        ELSE {peak_usage_stats})
  /\ UNCHANGED <<crash, now, config, monitor, current_usage_stats, next_report,
                 db, feed, folded, gpu_queried, late, startup, tick_start, api>>

NextSignal ==
  \/ Next
  \/ Interrupt

\* The sampler on a host where the operator or the service manager may
\* signal the process at any time.
SpecSignal == Init /\ [][NextSignal]_vars

\* A monitor whose classification is any member of GPUType, about to enter
\* run: the methods of VMMonitor read self.gpu_type whatever value the
\* constructor stored there.
InitAnyGpu ==
  /\ InitCommon
  /\ pc = "run"
  /\ config_dict \in ConfigDicts
  /\ validate_config(config_dict)
  /\ config_dict.db_file_path = OpenablePath
  /\ db_session = get_session(config_dict.db_file_path)
  /\ sample_interval = config_dict.sample_interval
  /\ report_interval = config_dict.report_interval
  /\ feed = <<>>
  /\ gpu_type \in GPUType
  /\ num_gpus = (IF gpu_type = CPU_ONLY THEN 0 ELSE 1)
  /\ num_cpus \in CpuCounts
  /\ peak_usage_stats = UsageStats(num_cpus)
  /\ current_usage_stats = UsageStats(num_cpus)

SpecAnyGpu == InitAnyGpu /\ [][NextRun]_vars

\* The scenario of the spec: sample_interval 1, report_interval 5, and a
\* single-core host that reports 10, 50, 30, 90, 20 percent at 100 of
\* 1000 MB of memory on its first five readings.
ScenarioCpu == <<10, 50, 30, 90, 20>>

ScenarioFeed ==
  [k \in 1..Len(ScenarioCpu) |->
     [cpu |-> <<ScenarioCpu[k]>>, mem_used |-> 100 * MiB, mem_total |-> 1000 * MiB,
      disk_used |-> 1 * MiB, disk_total |-> 4 * MiB]]

InitScenario ==
  /\ InitCommon
  /\ pc = "main"
  /\ config_dict = [present |-> REQUIRED_KEYS, sample_interval |-> 1,
                    report_interval |-> 5, db_file_path |-> OpenablePath]
  /\ db_session = None
  /\ sample_interval = 0
  /\ report_interval = 0
  /\ feed = ScenarioFeed
  /\ gpu_type = CPU_ONLY
  /\ num_gpus = 0
  /\ num_cpus = 0
  /\ peak_usage_stats = UsageStats(0)
  /\ current_usage_stats = UsageStats(0)

SpecScenario == InitScenario /\ [][Next]_vars

\* ---------------------------------------------------------------- the API
\* Timestamps of stored rows: the last second of day 0, the first second,
\* noon and the last second of day 1, and the first second of day 2.
ApiTimestamps ==
  { EndOfDay, SecondsPerDay, SecondsPerDay + SecondsPerDay \div 2,
    SecondsPerDay + EndOfDay, 2 * SecondsPerDay }

\* The clock while the API serves its requests: noon of day 2.
ApiNow == 2 * SecondsPerDay + SecondsPerDay \div 2

\* The peak window of the rows of the API's stores.
ApiWindow ==
  [cpu |-> <<2>>, mem_used_mb |-> 1, mem_total_mb |-> 2, disk_used_mb |-> 1,
   disk_total_mb |-> 4, gpu_proc |-> 3, gpu_mem_used |-> 1, gpu_mem_total |-> 4]

\* The rows log_peak_stats can leave for a flush at second t: the Sample
\* row with its child rows, or without them when the second commit failed.
ApiRows(t) == { FullRow(t, 1, 1, ApiWindow, NVIDIA_GPU), SampleRow(t, 1, 1) }

\* The stores the sampler can have written: up to MaxStored rows in the
\* order of their flushes, each flush later than the one before.
ApiStores ==
  UNION { { rows \in [1..n -> UNION {ApiRows(t) : t \in ApiTimestamps}] :
              \A k \in 1..(n - 1) : rows[k].timestamp < rows[k + 1].timestamp } :
          n \in 0..MaxStored }

\* The API server (VMMonitorAPI.run) is up over a store the sampler wrote.
InitApi ==
  /\ pc = "api"
  /\ db \in ApiStores
  /\ request = NoRequest
  /\ response = NoResponse
  /\ crash = "none"
  /\ now = ApiNow
  /\ next_report = 0
  /\ folded = {}
  /\ gpu_queried = FALSE
  /\ late = 0
  /\ tick_start = 0
  /\ stopped_at = "none"
  /\ config_dict = [present |-> REQUIRED_KEYS, sample_interval |-> 1,
                    report_interval |-> 2, db_file_path |-> OpenablePath]
  /\ db_session = None
  /\ sample_interval = 0
  /\ report_interval = 0
  /\ feed = <<>>
  /\ gpu_type = CPU_ONLY
  /\ num_gpus = 0
  /\ num_cpus = 0
  /\ peak_usage_stats = UsageStats(0)
  /\ current_usage_stats = UsageStats(0)

\* GET /get_usage_data?start=...&end=...
GetUsageData ==
  /\ pc = "api"
  /\ \E start \in ApiArgs, end \in ApiArgs, opened \in BOOLEAN, plan \in QueryPlans :
       /\ request' = [NoRequest EXCEPT !.route = "get_usage_data",
                                       !.start = start, !.end = end]
       /\ response' = get_usage_data(db, start, end, opened, plan)
  /\ UNCHANGED <<pc, crash, now, config, monitor, peak_usage_stats,
                 current_usage_stats, next_report, db, feed, folded,
                 gpu_queried, late, startup, tick_start, stopped_at>>

\* GET /check_up
GetCheckUp ==
  /\ pc = "api"
  /\ request' = [NoRequest EXCEPT !.route = "check_up"]
  /\ response' = [status |-> 200, error |-> "", data |-> <<>>, count |-> 0]
  /\ UNCHANGED <<pc, crash, now, config, monitor, peak_usage_stats,
                 current_usage_stats, next_report, db, feed, folded,
                 gpu_queried, late, startup, tick_start, stopped_at>>

\* POST /purge?days=...
PostPurge ==
  /\ pc = "api"
  /\ \E days \in PurgeArgs, opened \in BOOLEAN :
       LET res == post_purge(db, days, now, opened)
       IN /\ request' = [NoRequest EXCEPT !.route = "purge", !.days = days]
          /\ response' = [status |-> res.status, error |-> res.error,
                          deleted_count |-> res.deleted_count]
          /\ db' = res.db
  /\ UNCHANGED <<pc, crash, now, config, monitor, peak_usage_stats,
                 current_usage_stats, next_report, feed, folded,
                 gpu_queried, late, startup, tick_start, stopped_at>>

NextApi ==
  \/ GetUsageData
  \/ GetCheckUp
  \/ PostPurge

SpecApi == InitApi /\ [][NextApi]_vars

\* ----------------------------------------------------------------- claims
SetMax(S) == CHOOSE m \in S : \A x \in S : x <= m

LastRow == db[Len(db)]

\* A Sample row that has all the child rows of a flush.
Complete(row) == row.memory # <<>> /\ row.disk # <<>> /\ Len(row.cpus) = row.cpu_count

\* C1: a flush whose record call fails leaves every field of the peak window
\* as it was, and the peak window is reset only in a tick whose record call
\* stored the complete window.
C1_FailedRecordKeepsPeak ==
  [][ /\ (pc = "log" /\ pc' # "reset") => peak_usage_stats' = peak_usage_stats
      /\ pc = "reset" =>
           /\ Len(db) > 0
           /\ Complete(LastRow)
           /\ LastRow.timestamp = now ]_vars

C1_Witness ==
  /\ crash = "log"
  /\ peak_usage_stats.mem_used_mb > 0
  /\ peak_usage_stats.mem_total_mb > 0

\* C2: after a flush whose record call failed the sampler keeps running, so
\* that the retained peak can be offered to the sink again.
C2_SamplerSurvivesFailedRecord ==
  crash = "log" => pc # "crashed"

\* C3: when a flush's record call fails, the next report deadline is still
\* moved forward to one report_interval after the failed flush.
C3_DeadlineAdvancesOnFailedRecord ==
  crash = "log" => next_report = now + report_interval

\* C4: a failing sample never terminates the sampler.
C4_SamplerSurvivesFailedSample ==
  crash = "sample" => pc # "crashed"

\* C5: a tick whose sampling failed leaves every field of the peak window
\* unchanged, also when the CPU/memory/disk part of the reading had been
\* stored before the GPU part failed.
C5_FailedSampleKeepsPeak ==
  [][ (pc = "sample" /\ crash' = "sample") => peak_usage_stats' = peak_usage_stats ]_vars

C5_Witness ==
  /\ crash = "sample"
  /\ current_usage_stats.mem_total_mb # peak_usage_stats.mem_total_mb
  /\ current_usage_stats.cpu # peak_usage_stats.cpu
  /\ peak_usage_stats.mem_used_mb > 0

\* C6: in every state where folds have completed since construction or the
\* last reset, each used/percent field of the peak window is the maximum of
\* that field over the folded samples (all zero when none was folded):
\* cpu per core index, mem_used_mb, disk_used_mb, and gpu_proc and
\* gpu_mem_used when there is a GPU.
C6_PeakIsMaxOfFolded ==
  crash # "fold" =>
    IF folded = {}
    THEN /\ peak_usage_stats.cpu = Zeros(num_cpus)
         /\ peak_usage_stats.mem_used_mb = 0
         /\ peak_usage_stats.disk_used_mb = 0
         /\ peak_usage_stats.gpu_proc = 0
         /\ peak_usage_stats.gpu_mem_used = 0
    ELSE /\ Len(peak_usage_stats.cpu) = num_cpus
         /\ \A i \in 1..num_cpus :
              peak_usage_stats.cpu[i] = SetMax({s.cpu[i] : s \in folded})
         /\ peak_usage_stats.mem_used_mb = SetMax({s.mem_used_mb : s \in folded})
         /\ peak_usage_stats.disk_used_mb = SetMax({s.disk_used_mb : s \in folded})
         /\ gpu_type # CPU_ONLY =>
              /\ peak_usage_stats.gpu_proc = SetMax({s.gpu_proc : s \in folded})
              /\ peak_usage_stats.gpu_mem_used = SetMax({s.gpu_mem_used : s \in folded})

\* Two folded samples, neither of which holds all the maxima.
C6_Witness ==
  /\ pc = "check"
  /\ \E s1 \in folded, s2 \in folded :
       /\ s1.cpu[1] > s2.cpu[1]
       /\ s1.mem_used_mb < s2.mem_used_mb
       /\ s1 # current_usage_stats
       /\ peak_usage_stats.cpu[1] = s1.cpu[1]
       /\ peak_usage_stats.mem_used_mb = s2.mem_used_mb

\* C7: right after reset() the used/percent fields of the peak window are 0
\* and its total fields still equal the totals of the last folded sample.
C7_ResetKeepsTotals ==
  pc = "deadline" =>
    /\ peak_usage_stats.cpu = Zeros(num_cpus)
    /\ peak_usage_stats.mem_used_mb = 0
    /\ peak_usage_stats.disk_used_mb = 0
    /\ peak_usage_stats.gpu_proc = 0
    /\ peak_usage_stats.gpu_mem_used = 0
    /\ peak_usage_stats.mem_total_mb = current_usage_stats.mem_total_mb
    /\ peak_usage_stats.disk_total_mb = current_usage_stats.disk_total_mb
    /\ peak_usage_stats.gpu_mem_total = current_usage_stats.gpu_mem_total

\* C8: the window a flush stores holds per core the maximum cpu percentage
\* and the maximum mem_used_mb over the samples folded since the previous
\* flush and the mem_total_mb of the latest sample; and in the scenario
\* (sample_interval 1, report_interval 5, one core reading 10, 50, 30, 90,
\* 20 at 100 of 1000 MB) the flush at second 5 stores cpu 90, 100 MB used
\* and 1000 MB total.
C8_ScenarioWindow ==
  /\ pc = "reset" =>
       /\ \A i \in 1..num_cpus :
            LastRow.cpus[i].usage_percent = SetMax({s.cpu[i] : s \in folded})
       /\ LastRow.memory[1].used_mb = SetMax({s.mem_used_mb : s \in folded})
       /\ LastRow.memory[1].total_mb = current_usage_stats.mem_total_mb
  /\ (pc = "reset" /\ Len(db) = 1 /\ num_cpus = 1 /\ now = report_interval) =>
       /\ LastRow.timestamp = 5
       /\ LastRow.cpus = << [cpu_index |-> 0, usage_percent |-> 90] >>
       /\ LastRow.memory = << [total_mb |-> 1000, used_mb |-> 100] >>

\* The flush that ends the current tick: it stored a row at this second.
FlushedThisTick ==
  /\ pc = "sleep"
  /\ Len(db) > 0
  /\ LastRow.timestamp = now

\* C9: a tick that finds the report deadline missed by several report
\* periods flushes exactly once and leaves the deadline one report_interval
\* after the clock; no two flushes are less than report_interval apart.
C9_OneFlushAfterStall ==
  /\ (FlushedThisTick /\ late >= 2 * report_interval) =>
       /\ next_report = now + report_interval
       /\ Cardinality({k \in 1..Len(db) : db[k].timestamp = now}) = 1
  /\ \A k \in 1..(Len(db) - 1) :
       db[k + 1].timestamp >= db[k].timestamp + report_interval

\* A flush after the deadline was missed by three report periods, followed
\* by a tick that did not flush.
C9_Witness ==
  /\ pc = "sleep"
  /\ late >= StallPeriods * report_interval
  /\ Len(db) = 1
  /\ Complete(LastRow)
  /\ LastRow.timestamp < now
  /\ next_report > now

\* C10: with the classification CPU_ONLY no GPU query is made, the samples
\* and the peak window carry no GPU data, and no stored row has a GPU row.
C10_CpuOnlyNoGpu ==
  gpu_type = CPU_ONLY =>
    /\ ~gpu_queried
    /\ current_usage_stats.gpu_proc = 0
    /\ current_usage_stats.gpu_mem_used = 0
    /\ current_usage_stats.gpu_mem_total = 0
    /\ peak_usage_stats.gpu_proc = 0
    /\ peak_usage_stats.gpu_mem_used = 0
    /\ peak_usage_stats.gpu_mem_total = 0
    /\ \A k \in 1..Len(db) : db[k].gpus = <<>> /\ db[k].gpu_count = 0

C10_Witness ==
  /\ gpu_type = CPU_ONLY
  /\ Len(db) = MaxRows
  /\ \A k \in 1..Len(db) : Complete(db[k])

\* C11: the constructor always completes, whatever the two probes do
\* (exit 0, exit non-zero, command absent), and leaves the monitor
\* classified as one of NVIDIA_GPU, AMD_GPU or CPU_ONLY.
C11_ConstructionClassifies ==
  [][ pc = "construct" => (pc' = "run" /\ gpu_type' \in GPUType) ]_vars

\* C12: after every fold the total fields of the peak window (mem_total_mb,
\* disk_total_mb, and gpu_mem_total when the monitor has a GPU) are those of
\* the sample just folded, also when an earlier sample of the window had a
\* larger total.
C12_TotalsAreLatest ==
  pc = "check" =>
    /\ peak_usage_stats.mem_total_mb = current_usage_stats.mem_total_mb
    /\ peak_usage_stats.disk_total_mb = current_usage_stats.disk_total_mb
    /\ gpu_type # CPU_ONLY =>
         peak_usage_stats.gpu_mem_total = current_usage_stats.gpu_mem_total

\* A fold of a sample whose totals are all smaller than those of a sample
\* folded earlier in the same window.
C12_Witness ==
  /\ pc = "check"
  /\ gpu_type = NVIDIA_GPU
  /\ \E s \in folded :
       /\ s.mem_total_mb > current_usage_stats.mem_total_mb
       /\ s.disk_total_mb > current_usage_stats.disk_total_mb
       /\ s.gpu_mem_total > current_usage_stats.gpu_mem_total
       /\ peak_usage_stats.mem_total_mb < s.mem_total_mb

\* C13: a fold of a sample whose cpu list is shorter or longer than the
\* peak window's takes the per-index maximum over the overlapping prefix,
\* leaves the other entries and the length of the window's list as they
\* were, and the loop goes on to the expiry check.
C13_MismatchFoldsPrefix ==
  [][ (pc = "fold" /\ Len(current_usage_stats.cpu) # Len(peak_usage_stats.cpu)) =>
        /\ pc' = "check"
        /\ Len(peak_usage_stats'.cpu) = Len(peak_usage_stats.cpu)
        /\ \A i \in 1..Len(peak_usage_stats.cpu) :
             peak_usage_stats'.cpu[i] =
               IF i <= Len(current_usage_stats.cpu)
               THEN max(peak_usage_stats.cpu[i], current_usage_stats.cpu[i])
               ELSE peak_usage_stats.cpu[i] ]_vars

\* C14: when the work of a tick (sample, fold, optional flush) took less
\* than sample_interval and the sleep was not delayed, the next tick starts
\* exactly sample_interval after the tick started: the time spent sampling
\* is not added to the tick-to-tick interval.
C14_TickStartsOnePeriodApart ==
  [][ ( /\ pc = "sleep"
        /\ pc' = "sample"
        /\ now - tick_start < sample_interval
        /\ now' - now <= sample_interval )
      => now' = tick_start + sample_interval ]_vars

\* C15: a stop signal halts the loop only at an iteration boundary (before
\* the sample or before the sleep), after the tick in flight has completed;
\* it never stops the loop inside a tick, in particular not between the
\* beginning and the end of a fold.
C15_StopsAtIterationBoundary ==
  pc = "interrupted" =>
    stopped_at \in {"main", "construct", "run", "sample", "sleep"}

\* C16: no tick is left waiting for the GPU query command: a command that
\* never returns is cut off by a timeout, so the sampler is never stuck in
\* get_current_usage and later ticks and flushes still happen.
C16_GpuQueryIsCutOff ==
  ~(pc = "hung" /\ gpu_queried)

\* C17: the row a flush stores holds exactly the values the peak window had
\* when the flush began, and neither the peak window nor the current sample
\* changes between the start and the end of the record call (no fold and no
\* reset runs inside it).
C17_RecordedWindowIsFlushStart ==
  [][ pc = "log" =>
        /\ peak_usage_stats' = peak_usage_stats
        /\ current_usage_stats' = current_usage_stats
        /\ pc' = "reset" =>
             /\ Len(db') = Len(db) + 1
             /\ LET row == db'[Len(db')]
                IN /\ Len(row.cpus) = Len(peak_usage_stats.cpu)
                   /\ \A i \in 1..Len(row.cpus) :
                        row.cpus[i].usage_percent = peak_usage_stats.cpu[i]
                   /\ row.memory[1].used_mb = peak_usage_stats.mem_used_mb
                   /\ row.memory[1].total_mb = peak_usage_stats.mem_total_mb
                   /\ row.disk[1].used_mb = peak_usage_stats.disk_used_mb
                   /\ row.disk[1].total_mb = peak_usage_stats.disk_total_mb
                   /\ gpu_type # CPU_ONLY =>
                        /\ row.gpus[1].usage_percent = peak_usage_stats.gpu_proc
                        /\ row.gpus[1].memory_used_mb = peak_usage_stats.gpu_mem_used
                        /\ row.gpus[1].memory_total_mb = peak_usage_stats.gpu_mem_total ]_vars

\* A second flush has just stored a window that differs from the first
\* one, and the peak window still holds the stored values.
C17_Witness ==
  /\ pc = "reset"
  /\ Len(db) = 2
  /\ Complete(db[2])
  /\ db[2].memory # db[1].memory
  /\ db[2].cpus # db[1].cpus
  /\ db[2].memory[1].used_mb = peak_usage_stats.mem_used_mb
  /\ peak_usage_stats.mem_used_mb > 0

\* C18: with a required key missing from the configuration no monitor is
\* constructed and no tick runs; and a problem of the configuration never
\* appears as the failure of a running sampler: a flush never fails for
\* want of the database session that db_file_path was to provide.
C18_ConfigFailsAtStartup ==
  /\ ~validate_config(config_dict) => (pc \in {"main", "exit"} /\ now = 0)
  /\ ~(crash = "log" /\ db_session = None)

\* C20: the steps of a tick run in the order sample, fold, expiry check and,
\* when the deadline has expired, record and then reset.  The store changes
\* only in the record step, the peak window is reset only in the step that
\* follows a record of the same tick, and a tick whose expiry check is false
\* goes straight to the sleep.
C20_TickOrder ==
  [][ /\ pc = "sample" => pc' \in {"fold", "crashed", "hung"}
      /\ pc = "fold" => pc' \in {"check", "crashed"}
      /\ pc = "check" =>
           /\ pc' = (IF now >= next_report THEN "log" ELSE "sleep")
           /\ peak_usage_stats' = peak_usage_stats
      /\ pc = "log" => pc' \in {"reset", "crashed"}
      /\ pc = "reset" =>
           /\ pc' = "deadline"
           /\ Len(db) > 0
           /\ LastRow.timestamp = now
           /\ peak_usage_stats' = reset(peak_usage_stats)
      /\ pc = "deadline" => pc' = "sleep"
      /\ pc = "sleep" => pc' = "sample"
      /\ db' # db => pc = "log"
      /\ (pc \notin {"construct", "fold", "reset"}) =>
           peak_usage_stats' = peak_usage_stats ]_vars

\* A tick that flushed and reset, followed by a tick whose expiry check was
\* false: the store is as the flush left it and the window holds the fold.
C20_Witness ==
  /\ pc = "sleep"
  /\ Len(db) = 1
  /\ Complete(LastRow)
  /\ LastRow.timestamp < now
  /\ next_report > now
  /\ folded = {current_usage_stats}
  /\ peak_usage_stats.mem_used_mb = current_usage_stats.mem_used_mb

\* C19: a successful GET /get_usage_data with start and end returns exactly
\* the stored rows whose timestamp lies on a day from the day of start to
\* the day of end, both days included in full, each row once and with its
\* own values, in the order of their timestamps.
C19_RangeReturnsDays ==
  (request.route = "get_usage_data" /\ response.status = 200) =>
    LET wanted == { k \in 1..Len(db) :
                      /\ db[k].timestamp \div SecondsPerDay >= request.start.day
                      /\ db[k].timestamp \div SecondsPerDay <= request.end.day }
        data == response.data
        Before(a, b) == a.day < b.day \/ (a.day = b.day /\ a.second < b.second)
    IN /\ Len(data) = Cardinality(wanted)
       /\ response.count = Cardinality(wanted)
       /\ \A k \in wanted : \E i \in 1..Len(data) :
            /\ data[i].timestamp.day = db[k].timestamp \div SecondsPerDay
            /\ data[i].timestamp.second = db[k].timestamp % SecondsPerDay
            /\ data[i].cpus = db[k].cpus
            /\ data[i].memory = db[k].memory
            /\ data[i].disk = db[k].disk
            /\ data[i].gpus = db[k].gpus
       /\ \A i \in 1..(Len(data) - 1) : Before(data[i].timestamp, data[i + 1].timestamp)

\* A range of one day, asked with times of day inside it, over a store
\* with rows before, at the first and the last second of, and after that day.
C19_Witness ==
  /\ request.route = "get_usage_data"
  /\ response.status = 200
  /\ request.start.day = 1
  /\ request.end.day = 1
  /\ request.start.second > 0
  /\ request.end.second = 0
  /\ Len(db) = MaxStored
  /\ response.count = 2
  /\ response.data[1].timestamp = [day |-> 1, second |-> 0]
  /\ response.data[2].timestamp = [day |-> 1, second |-> EndOfDay]
  /\ db[1].timestamp < SecondsPerDay

\* C21: a flush runs only in a tick whose expiry check found the clock at
\* or past next_report, and a tick that flushed leaves next_report one
\* report_interval after the clock; so the first stored row is at least
\* report_interval after the process started (second 0), and each stored
\* row at least report_interval after the one before it.
C21_FlushesOnePeriodApart ==
  /\ pc \in {"log", "reset", "deadline"} => now >= next_report
  /\ (pc = "sleep" /\ Len(db) > 0 /\ LastRow.timestamp = now) =>
       next_report = now + report_interval
  /\ \A k \in 1..Len(db) :
       db[k].timestamp >= (IF k = 1 THEN 0 ELSE db[k - 1].timestamp) + report_interval

\* Two flushes with several ticks between them, the second one just done.
C21_Witness ==
  /\ pc = "sleep"
  /\ Len(db) = 2
  /\ db[2].timestamp = now
  /\ db[2].timestamp - db[1].timestamp >= 2 * (sample_interval + CpuPercentInterval)
  /\ db[2].timestamp - db[1].timestamp > report_interval
  /\ next_report = now + report_interval

\* C22: the cpu list of the peak window always has one entry per core
\* counted at construction, across folds and resets, and once the
\* constructor has run the core count and the GPU classification with its
\* GPU count never change.
C22_ShapeIsFixed ==
  [][ /\ Len(peak_usage_stats'.cpu) = num_cpus'
      /\ pc \notin {"main", "construct"} =>
           /\ gpu_type' = gpu_type
           /\ num_gpus' = num_gpus
           /\ num_cpus' = num_cpus
           /\ Len(peak_usage_stats'.cpu) = Len(peak_usage_stats.cpu) ]_vars

\* A two-core monitor after a flush and a reset, and a fold of a reading
\* that listed three cores.
C22_Witness ==
  /\ pc = "check"
  /\ num_cpus = 2
  /\ Len(db) = 1
  /\ Len(current_usage_stats.cpu) = 3
  /\ Len(peak_usage_stats.cpu) = 2
  /\ gpu_type = NVIDIA_GPU

\* C23: the peak window is written only by the constructor that creates
\* it, by the fold and by the reset: taking a sample and recording to the
\* store leave every field of it unchanged, whether they succeed or fail.
C23_OnlyFoldAndResetWrite ==
  [][ /\ pc = "sample" => peak_usage_stats' = peak_usage_stats
      /\ pc = "log" => peak_usage_stats' = peak_usage_stats
      /\ peak_usage_stats' # peak_usage_stats =>
           pc \in {"construct", "fold", "reset"} ]_vars

\* A record call has returned and the window still holds maxima that the
\* latest sample, taken after them, does not reach.
C23_Witness ==
  /\ pc = "reset"
  /\ Len(db) = 1
  /\ Complete(LastRow)
  /\ peak_usage_stats.mem_used_mb > current_usage_stats.mem_used_mb
  /\ peak_usage_stats.cpu # current_usage_stats.cpu
  /\ peak_usage_stats.cpu # Zeros(num_cpus)

\* C24: a query without its start or its end date is answered with status
\* 400 and the text "start and end dates are required"; a purge without
\* days, or with days that is not an integer, is answered with status 400;
\* and none of these requests changes the store.
C24_BadRequestsAre400 ==
  [][ /\ ( /\ request'.route = "get_usage_data"
           /\ \/ request'.start.kind \in {"absent", "empty"}
              \/ request'.end.kind \in {"absent", "empty"} ) =>
           /\ response'.status = 400
           /\ response'.error = DatesRequired
           /\ db' = db
      /\ ( /\ request'.route = "purge"
           /\ request'.days.kind \in {"absent", "empty", "garbage"} ) =>
           /\ response'.status = 400
           /\ response'.error \in {DaysRequired, InvalidDays}
           /\ db' = db ]_vars

\* A purge whose days is not an integer has been refused over a store
\* whose rows are all older than the clock.
C24_Witness ==
  /\ request.route = "purge"
  /\ request.days.kind = "garbage"
  /\ response.status = 400
  /\ response.error = InvalidDays
  /\ Len(db) = MaxStored
  /\ \A k \in 1..Len(db) : db[k].timestamp < now

\* C25: a purge with days = d that succeeds deletes exactly the samples
\* stamped earlier than the clock minus d days, keeps every sample stamped
\* at or after that cutoff, in its place, and reports the number of deleted
\* samples as deleted_count.
C25_PurgeDeletesOlder ==
  [][ (request'.route = "purge" /\ response'.status = 200) =>
        LET cutoff == now - request'.days.value * SecondsPerDay
            older == { k \in 1..Len(db) : db[k].timestamp < cutoff }
        IN /\ response'.deleted_count = Cardinality(older)
           /\ Len(db') = Len(db) - Cardinality(older)
           /\ \A k \in 1..Len(db) :
                (k \notin older) <=> (\E j \in 1..Len(db') : db'[j] = db[k])
           /\ \A j \in 1..Len(db') : db'[j].timestamp >= cutoff ]_vars

\* A purge of one day has deleted two samples and kept the one stamped
\* exactly at the cutoff.
C25_Witness ==
  /\ request.route = "purge"
  /\ request.days = [kind |-> "int", value |-> 1]
  /\ response.status = 200
  /\ response.deleted_count = 2
  /\ Len(db) = 1
  /\ db[1].timestamp = now - SecondsPerDay

\* C26: while nothing has failed, the sample taken in a tick is among the
\* folded samples of the open window from its fold on; the row a flush
\* stores covers exactly the samples folded since the previous flush, the
\* sample of the flushing tick included; and after the reset no sample of
\* the flushed window is left in the peak window, so none is stored twice.
C26_EverySampleInOneWindow ==
  crash = "none" =>
    /\ pc \in {"check", "log", "reset"} => current_usage_stats \in folded
    /\ pc = "reset" =>
         /\ \A i \in 1..num_cpus :
              LastRow.cpus[i].usage_percent = SetMax({s.cpu[i] : s \in folded})
         /\ LastRow.memory[1].used_mb = SetMax({s.mem_used_mb : s \in folded})
         /\ LastRow.disk[1].used_mb = SetMax({s.disk_used_mb : s \in folded})
         /\ LastRow.memory[1].used_mb >= current_usage_stats.mem_used_mb
    /\ (pc = "deadline" \/ (pc = "sleep" /\ Len(db) > 0 /\ LastRow.timestamp = now)) =>
         /\ folded = {}
         /\ peak_usage_stats = UsageStats(num_cpus)

\* Two flushed windows, the samples of the second all lower than the
\* maxima of the first.
C26_Witness ==
  /\ pc = "sleep"
  /\ crash = "none"
  /\ Len(db) = 2
  /\ LastRow.timestamp = now
  /\ db[2].memory[1].used_mb < db[1].memory[1].used_mb
  /\ db[2].disk[1].used_mb < db[1].disk[1].used_mb
  /\ folded = {}

\* C27: when every reading has used <= total for memory and for disk, every
\* stored window has mem_used_mb <= mem_total_mb and disk_used_mb <=
\* disk_total_mb, also when the totals differ between the samples of a
\* window.
C27_StoredUsedWithinTotal ==
  (\A r \in PsutilReadings :
     r.mem_used <= r.mem_total /\ r.disk_used <= r.disk_total) =>
    \A k \in 1..Len(db) :
      /\ db[k].memory # <<>> => db[k].memory[1].used_mb <= db[k].memory[1].total_mb
      /\ db[k].disk # <<>> => db[k].disk[1].used_mb <= db[k].disk[1].total_mb

\* C28: every Sample row in the store has its child rows: one CPU row per
\* core, one memory row and one disk row, also after a flush that failed
\* part-way through.
C28_FlushIsAllOrNothing ==
  \A k \in 1..Len(db) :
    /\ Len(db[k].cpus) = db[k].cpu_count
    /\ Len(db[k].memory) = 1
    /\ Len(db[k].disk) = 1

\* C29: in every row whose child rows were stored, cpu_count is the number
\* of CPU rows, which carry the indices 0 .. cpu_count - 1 once each, and
\* gpu_count is the number of GPU rows: 0 for a CPU_ONLY monitor and 1
\* otherwise.
C29_CountsMatchRows ==
  \A k \in 1..Len(db) :
    db[k].memory # <<>> =>
      /\ Len(db[k].cpus) = db[k].cpu_count
      /\ \A i \in 0..(db[k].cpu_count - 1) :
           Cardinality({j \in 1..Len(db[k].cpus) : db[k].cpus[j].cpu_index = i}) = 1
      /\ Len(db[k].gpus) = db[k].gpu_count
      /\ db[k].gpu_count = (IF gpu_type = CPU_ONLY THEN 0 ELSE 1)

\* Rows of a two-core monitor classified AMD_GPU.
C29_Witness ==
  /\ gpu_type = AMD_GPU
  /\ num_cpus = 2
  /\ Len(db) = 2
  /\ \A k \in 1..Len(db) :
       /\ db[k].memory # <<>>
       /\ db[k].cpu_count = 2
       /\ db[k].gpu_count = 1

====
